---- MODULE Spec2Model ----
(***************************************************************************)
(* WebSocketService of frontend/src/pages/AuthPage.js: one client object   *)
(* that owns a transport reference, a retry counter, a listener registry   *)
(* and the reconnection timers it has set.  Every method call and every    *)
(* transport or timer callback runs to completion on the single JavaScript *)
(* task queue, so each is one atomic action.                               *)
(***************************************************************************)
EXTENDS Integers, Sequences, FiniteSets, Bags, TLC

(* ------------------------------ bounds -------------------------------- *)
\* transports (new WebSocket) one run may create
MaxTransports == 6
\* largest attempt budget a run starts with (maxReconnectAttempts in 1..MaxBudget);
\* the constructor's 5 is among them
MaxBudget == 5
\* transports that may be live at once: connect is not called beyond it
MaxLive == 2
\* registrations the listener registry may hold at once while the connection runs
MaxListeners == 1
\* on/off calls one run of the registry specification makes
MaxRegOps == 3
\* registrations held while frames come in
MaxSubscribed == 2
MaxLogins == 1
MaxRemovals == 3
MaxSends == 2
MaxMessages == 3
MaxPushed == 2
MaxChat == 4
MaxUnread == 2
MaxReducedMessages == 2
MaxReducedNotifications == 1
MaxNotifications == 2
MaxClock == 2
MaxRequests == 3

(* --------------------------- program values --------------------------- *)
\* reconnectInterval, milliseconds
BaseInterval == 1000

\* WebSocket.readyState
CONNECTING == "CONNECTING"
OPEN == "OPEN"
CLOSING == "CLOSING"
CLOSED == "CLOSED"
\* a transport slot no `new WebSocket` has filled yet
NONE == "NONE"

Transports == 1..MaxTransports
\* this.socket = null
NoSocket == 0

\* event types callers register listeners for
RegTypes == {"connection", "new_message"}
\* listener callbacks: A and B return normally, T throws when invoked
Callbacks == {"A", "B", "T"}
Throws(cb) == cb = "T"
\* the registrations that can reach the reconnection policy: listeners of
\* `connection`, returning or throwing
PolicyTypes == {"connection"}
PolicyCallbacks == {"A", "T"}

\* message types and payloads of frames
MsgTypes == {"new_message", "typing"}
Payloads == {"p1", "p2"}
\* event types of what a transport delivers: frames and errors
SubscribedTypes == MsgTypes \cup {"error"}
\* the messages the model sends and receives
Messages == {<<"new_message", "p1">>, <<"typing", "p2">>}

\* the text JSON.stringify({type, payload}) produces
Stringify(type, payload) == [json |-> TRUE, type |-> type, payload |-> payload]
\* text a peer may send: well-formed frames and text that is no JSON
Malformed == [json |-> FALSE, type |-> "", payload |-> ""]
WireTexts == {Stringify(m[1], m[2]) : m \in Messages} \cup {Malformed}
\* mutant of Parse: a parser that makes an object of any text
ParseAny(text) == [ok |-> TRUE, type |-> text.type, payload |-> text.payload]

\* JSON.parse: the parsed object, or ok = FALSE where it throws
Parse(text) ==
    IF text.json THEN [ok |-> TRUE, type |-> text.type, payload |-> text.payload]
    ELSE [ok |-> FALSE, type |-> "", payload |-> ""]

VARIABLES
    socket,                \* this.socket: NoSocket or a transport
    readyState,            \* readyState of every transport created so far
    closedOpen,            \* transports disconnect() closed while open, until
                           \* their close callback has run
    reconnectAttempts,     \* this.reconnectAttempts
    maxReconnectAttempts,  \* this.maxReconnectAttempts
    reconnectInterval,     \* this.reconnectInterval
    listeners,             \* this.listeners: event type -> array of callbacks
    timers,                \* pending setTimeout callbacks, as a bag of delays
    effects,               \* what the latest call or callback did, in order
    sent,                  \* the texts the latest call passed to socket.send
    threw,                 \* whether an exception escaped the latest call or callback
    scheduledDelays,       \* delays passed to setTimeout since the last open
    reachedSinceOpen,      \* maxReconnectAttemptsReached emits since the last open
    failedBeforeOpen,      \* retry counter value the last open found, NeverOpened before one
    onlyFailures,          \* the run so far: one connect, closes before open, timers
    regOps,                \* on/off calls made by the registry harness
    dropped                \* whether onmessage has met a frame it could not parse

\* the WebSocketService instance wsService and what is observed of it
wsVars == <<socket, readyState, closedOpen, reconnectAttempts,
            maxReconnectAttempts, reconnectInterval, listeners, timers, effects,
            sent, threw, scheduledDelays, reachedSinceOpen, failedBeforeOpen,
            onlyFailures, regOps, dropped>>

VARIABLES
    state,                 \* AppProvider: the state useReducer(appReducer, ...) holds
    now,                   \* AppProvider: what Date.now() returns
    removals,              \* AppProvider: pending auto-remove timers, oldest first
    sends,                 \* AppProvider: the services.sendMessage calls made, each with the
                           \* state.messages its closure holds and how the API settled it
    logins,                \* AppProvider: services.login calls awaiting the API
    loggedOut,             \* AppProvider: services.logout has completed since the last login
    chatMessages,          \* ChatInterface: messages
    chatLoading,           \* ChatInterface: loading
    chatError,             \* ChatInterface: error
    conversationId,        \* ChatInterface: conversationId
    chatSend,              \* ChatInterface: the optimistic entry of the send awaiting axios.post
    chatLoad,              \* ChatInterface: how far loadConversations has got
    logs,                  \* LogsManager: logs
    filteredLogs,          \* LogsManager: filteredLogs
    logsLoading,           \* LogsManager: loading
    filters,               \* LogsManager: filters
    requests               \* LogsManager: the loadLogs calls made, each with the filters
                           \* it sent and how axios.get settled it

providerVars == <<state, now, removals, sends, logins, loggedOut>>
chatVars == <<chatMessages, chatLoading, chatError, conversationId, chatSend, chatLoad>>
logsVars == <<logs, filteredLogs, logsLoading, filters, requests>>
\* the React components' state
appVars == <<providerVars, chatVars, logsVars>>

vars == <<wsVars, appVars>>

(* ----------------------- AppProvider: the reducer --------------------- *)
\* null and undefined
Null == "null"

Roles == {"user", "assistant"}
NotificationTypes == {"success", "error", "info"}

\* a message of state.messages: its id, its role, and isTemporary (TRUE on the
\* optimistic entry of services.sendMessage alone)
Message(id, role, temporary) == [id |-> id, role |-> role, isTemporary |-> temporary]

\* the argument of addNotification: a type, and autoRemove (FALSE where the
\* caller passes autoRemove: false, TRUE where it passes none)
Notice(type, autoRemove) == [type |-> type, autoRemove |-> autoRemove]

initialState ==
    [user               |-> Null,
     conversations      |-> <<>>,
     activeConversation |-> Null,
     messages           |-> <<>>,
     isLoading          |-> FALSE,
     error              |-> Null,
     isConnected        |-> TRUE,
     typing             |-> FALSE,
     unreadCount        |-> 0,
     theme              |-> "light",
     notifications      |-> <<>>,
     systemHealth       |-> Null]

\* { type, payload }
Action(type, payload) == [type |-> type, payload |-> payload]

\* mutant of UnreadAfter: every added message counts as unread
UnreadAfterAny(count, message) == count + 1

\* unreadCount of ADD_MESSAGE: one more for a message of the assistant
UnreadAfter(count, message) ==
    IF message.role = "assistant" THEN count + 1 ELSE count

\* state.messages.map of UPDATE_MESSAGE; the payload carries every field
MapById(msgs, payload) ==
    [i \in 1..Len(msgs) |-> IF msgs[i].id = payload.id THEN payload ELSE msgs[i]]

\* state.notifications.filter(notif => notif.id !== id)
WithoutId(notes, id) ==
    LET Keep(n) == n.id # id IN SelectSeq(notes, Keep)

\* appReducer(state, action); Date.now() is the clock of the step
appReducer(s, action) ==
    CASE action.type = "SET_USER" -> [s EXCEPT !.user = action.payload]
      [] action.type = "SET_CONVERSATIONS" -> [s EXCEPT !.conversations = action.payload]
      [] action.type = "SET_ACTIVE_CONVERSATION" ->
             [s EXCEPT !.activeConversation = action.payload, !.unreadCount = 0]
      [] action.type = "ADD_MESSAGE" ->
             [s EXCEPT !.messages = Append(s.messages, action.payload),
                       !.unreadCount = UnreadAfter(s.unreadCount, action.payload)]
      [] action.type = "UPDATE_MESSAGE" ->
             [s EXCEPT !.messages = MapById(s.messages, action.payload)]
      [] action.type = "SET_MESSAGES" -> [s EXCEPT !.messages = action.payload]
      [] action.type = "SET_LOADING" -> [s EXCEPT !.isLoading = action.payload]
      [] action.type = "SET_ERROR" -> [s EXCEPT !.error = action.payload]
      [] action.type = "SET_CONNECTION_STATUS" -> [s EXCEPT !.isConnected = action.payload]
      [] action.type = "SET_TYPING" -> [s EXCEPT !.typing = action.payload]
      [] action.type = "SET_UNREAD_COUNT" -> [s EXCEPT !.unreadCount = action.payload]
      [] action.type = "SET_THEME" -> [s EXCEPT !.theme = action.payload]
      [] action.type = "ADD_NOTIFICATION" ->
             [s EXCEPT !.notifications =
                 Append(s.notifications,
                        [id |-> now, type |-> action.payload.type,
                         autoRemove |-> action.payload.autoRemove])]
      [] action.type = "REMOVE_NOTIFICATION" ->
             [s EXCEPT !.notifications = WithoutId(s.notifications, action.payload)]
      [] action.type = "SET_SYSTEM_HEALTH" -> [s EXCEPT !.systemHealth = action.payload]
      [] action.type = "RESET_STATE" -> [initialState EXCEPT !.theme = s.theme]
      [] OTHER -> s

\* the auto-remove effect: one timer for every notification whose autoRemove is
\* not false, carrying the notification's id and set at the clock of the step
AutoRemove(notes) ==
    LET Armed(n) == n.autoRemove
        armed == SelectSeq(notes, Armed)
    IN [i \in 1..Len(armed) |-> [id |-> armed[i].id, armed |-> now]]

\* dispatch(action) and the render that follows: the reducer, then the
\* auto-remove effect where the action has made a new state.notifications
dispatch(p, action) ==
    LET s == appReducer(p.state, action) IN
    [state    |-> s,
     removals |-> IF action.type \in {"ADD_NOTIFICATION", "REMOVE_NOTIFICATION"}
                  THEN p.removals \o AutoRemove(s.notifications)
                  ELSE p.removals]

\* the dispatches of one handler, in order
RECURSIVE dispatchAll(_, _)
dispatchAll(p, actions) ==
    IF actions = <<>> THEN p
    ELSE dispatchAll(dispatch(p, Head(actions)), Tail(actions))

\* the provider's state and timers before a handler runs
provider == [state |-> state, removals |-> removals]

(* ------------------------- LogsManager: values ------------------------ *)
\* the status filter the user may select; "" selects every status
Statuses == {"", "open", "resolved"}
\* filters, of which the model varies status
Filters(status) == [status |-> status, category |-> "", priority |-> "", hours |-> 24]
InitialFilters == Filters("")

(* ------------------------------ effects ------------------------------- *)
Fx(kind, event, data, cb, n) ==
    [kind |-> kind, event |-> event, data |-> data, cb |-> cb, n |-> n]
FxEmit(event, data) == Fx("emit", event, data, "", 0)
FxCall(cb, event, data) == Fx("call", event, data, cb, 0)
FxTimer(delay) == Fx("setTimeout", "", "", "", delay)
FxFrame == Fx("socket.send", "", "", "", 0)
FxWarn(type, payload) == Fx("warn", type, payload, "", 0)
FxLogError == Fx("console.error", "", "", "", 0)
FxNew == Fx("new WebSocket", "", "", "", 0)
FxClose == Fx("close", "", "", "", 0)

(* --------------------------- listener registry ------------------------ *)
Has(L, event) == event \in DOMAIN L
Get(L, event) == IF Has(L, event) THEN L[event] ELSE <<>>
Put(L, event, cbs) == [e \in DOMAIN L \cup {event} |-> IF e = event THEN cbs ELSE L[e]]

\* mutant of IndexOf: a miss yields the last index, as splice(-1, 1) reads it
IndexOfOrLast(cbs, cb) ==
    IF \E i \in 1..Len(cbs) : cbs[i] = cb
    THEN CHOOSE i \in 1..Len(cbs) : cbs[i] = cb /\ \A j \in 1..(i - 1) : cbs[j] # cb
    ELSE Len(cbs)

\* Array.prototype.indexOf: first index holding cb, 0 where the code gets -1
IndexOf(cbs, cb) ==
    IF \E i \in 1..Len(cbs) : cbs[i] = cb
    THEN CHOOSE i \in 1..Len(cbs) : cbs[i] = cb /\ \A j \in 1..(i - 1) : cbs[j] # cb
    ELSE 0

\* Array.prototype.splice(index, 1)
Splice(cbs, i) == SubSeq(cbs, 1, i - 1) \o SubSeq(cbs, i + 1, Len(cbs))

\* mutant of on: a callback already registered for the event is not added again
onUnique(L, event, cb) ==
    IF \E i \in 1..Len(Get(L, event)) : Get(L, event)[i] = cb
    THEN Put(L, event, Get(L, event))
    ELSE Put(L, event, Append(Get(L, event), cb))

\* mutant of on: unshift in place of push
onFront(L, event, cb) == Put(L, event, <<cb>> \o Get(L, event))

\* on(event, callback): push onto the event's array, created when missing
on(L, event, cb) == Put(L, event, Append(Get(L, event), cb))

off(L, event, cb) ==
    IF Has(L, event) /\ IndexOf(L[event], cb) > 0
    THEN Put(L, event, Splice(L[event], IndexOf(L[event], cb)))
    ELSE L

\* forEach over the callbacks: the ones it invokes, up to the first that throws
RECURSIVE Invoked(_)
Invoked(cbs) ==
    IF cbs = <<>> THEN <<>>
    ELSE IF Throws(Head(cbs)) THEN <<Head(cbs)>>
    ELSE <<Head(cbs)>> \o Invoked(Tail(cbs))

\* mutant of emit: the listeners of every event type are invoked
emitToAll(L, event, data) ==
    LET RECURSIVE Cat(_)
        Cat(S) == IF S = {} THEN <<>>
                  ELSE LET e == CHOOSE x \in S : TRUE IN L[e] \o Cat(S \ {e})
        calls == Invoked(Cat(DOMAIN L))
    IN [fx    |-> <<FxEmit(event, data)>> \o [i \in 1..Len(calls) |-> FxCall(calls[i], event, data)],
        threw |-> \E i \in 1..Len(calls) : Throws(calls[i])]

\* emit(event, data): its effects, and whether a callback's exception leaves it
emit(L, event, data) ==
    LET calls == Invoked(Get(L, event)) IN
    [fx    |-> <<FxEmit(event, data)>> \o [i \in 1..Len(calls) |-> FxCall(calls[i], event, data)],
     threw |-> \E i \in 1..Len(calls) : Throws(calls[i])]

Registrations(L) ==
    LET RECURSIVE Sum(_)
        Sum(S) == IF S = {} THEN 0
                  ELSE LET e == CHOOSE x \in S : TRUE IN Len(L[e]) + Sum(S \ {e})
    IN Sum(DOMAIN L)

(* ------------------------------ transports ---------------------------- *)
Created == {t \in Transports : readyState[t] # NONE}
Live == {t \in Transports : readyState[t] \in {CONNECTING, OPEN, CLOSING}}
\* failedBeforeOpen while no transport has opened
NeverOpened == 0 - 1

\* the fields the constructor sets and no method writes
config == <<maxReconnectAttempts, reconnectInterval>>
\* what attemptReconnect writes
policy == <<reconnectAttempts, timers, scheduledDelays, reachedSinceOpen>>

\* constructor().  The attempt budget is the public field maxReconnectAttempts:
\* the constructor sets 5, and the model draws it from 1..MaxBudget to cover the
\* budgets a caller may set as well.
Init ==
    /\ socket = NoSocket
    /\ readyState = [t \in Transports |-> NONE]
    /\ closedOpen = {}
    /\ reconnectAttempts = 0
    /\ maxReconnectAttempts \in 1..MaxBudget
    /\ reconnectInterval = BaseInterval
    /\ listeners = [e \in {} |-> <<>>]
    /\ timers = EmptyBag
    /\ effects = <<>>
    /\ sent = <<>>
    /\ threw = FALSE
    /\ scheduledDelays = <<>>
    /\ reachedSinceOpen = 0
    /\ failedBeforeOpen = NeverOpened
    /\ onlyFailures = TRUE
    /\ regOps = <<>>
    /\ dropped = FALSE
    /\ state = initialState
    /\ now = 0
    /\ removals = <<>>
    /\ sends = <<>>
    /\ logins = 0
    /\ loggedOut = FALSE
    /\ chatMessages = <<>>
    /\ chatLoading = FALSE
    /\ chatError = ""
    /\ conversationId = Null
    /\ chatSend = <<>>
    /\ chatLoad = "conversations"
    /\ logs = <<>>
    /\ filteredLogs = <<>>
    /\ logsLoading = TRUE
    /\ filters = InitialFilters
    /\ requests = <<[filters |-> InitialFilters, status |-> "pending"]>>

(* ------------------------- reconnection policy ------------------------ *)
\* mutants of BackoffDelay: a doubling delay, a delay that does not grow, and
\* a delay that grows with the square of the counter
SquaredDelay(interval, attempts) == interval * attempts * attempts
ExponentialDelay(interval, attempts) == interval * 2 ^ (attempts - 1)
ConstantDelay(interval, attempts) == interval

\* the delay attemptReconnect passes to setTimeout, the counter already incremented
BackoffDelay(interval, attempts) == interval * attempts

\* mutant of BudgetLeft: the budget is never looked at
BudgetUnchecked(attempts, max) == TRUE

\* mutant of BudgetLeft: one attempt too many
BudgetLeftInclusive(attempts, max) == attempts <= max

\* the test of attemptReconnect: budget is left
BudgetLeft(attempts, max) == attempts < max

\* attemptReconnect(token): the new counter, the timer it sets (none or one),
\* its effects, and whether an exception leaves it
attemptReconnect(attempts, max, interval, L) ==
    IF BudgetLeft(attempts, max)
    THEN [attempts |-> attempts + 1,
          delays   |-> <<BackoffDelay(interval, attempts + 1)>>,
          fx       |-> <<FxTimer(BackoffDelay(interval, attempts + 1))>>,
          reached  |-> 0,
          threw    |-> FALSE]
    ELSE LET e == emit(L, "maxReconnectAttemptsReached", "undefined") IN
         [attempts |-> attempts,
          delays   |-> <<>>,
          fx       |-> <<FxLogError>> \o e.fx,
          reached  |-> 1,
          threw    |-> e.threw]

(* ------------------------------- connect ------------------------------ *)
\* mutant of IsOpen: connect never finds itself connected
IsOpenNever(sock, rs) == FALSE

\* the test of connect: an open transport is held
IsOpen(sock, rs) == sock # NoSocket /\ rs[sock] = OPEN

\* connect(token), as the caller and as a reconnection timer run it: return when
\* an open transport is held, else create a transport and hold it.  The URL is
\* ws://localhost:8000/ws?token=..., which the WebSocket constructor accepts.
connect ==
    IF IsOpen(socket, readyState)
    THEN /\ UNCHANGED <<socket, readyState>>
         /\ effects' = <<>>
    ELSE LET t == Cardinality(Created) + 1 IN
         /\ t \in Transports
         /\ Cardinality(Live) < MaxLive
         /\ readyState' = [readyState EXCEPT ![t] = CONNECTING]
         /\ socket' = t
         /\ effects' = <<FxNew>>

\* the caller calls connect(token), less the application state around the call
ConnectCall ==
    /\ connect
    /\ sent' = <<>>
    /\ threw' = FALSE
    /\ onlyFailures' = (onlyFailures /\ Created = {})
    /\ UNCHANGED <<closedOpen, config, listeners, policy, failedBeforeOpen, regOps, dropped>>

\* the caller calls connect(token)
Connect == ConnectCall /\ UNCHANGED appVars

\* a reconnection timer set by attemptReconnect fires: () => this.connect(token)
TimerFire(delay) ==
    /\ BagIn(delay, timers)
    /\ timers' = timers (-) SetToBag({delay})
    /\ connect
    /\ sent' = <<>>
    /\ threw' = FALSE
    /\ UNCHANGED <<closedOpen, config, listeners, reconnectAttempts,
                   scheduledDelays, reachedSinceOpen, failedBeforeOpen, onlyFailures, regOps, dropped, appVars>>

(* -------------------------- transport callbacks ----------------------- *)
\* mutant of ResetAttempts: onopen leaves the counter as it is
KeepAttempts(attempts) == attempts

\* this.reconnectAttempts = 0 in socket.onopen
ResetAttempts(attempts) == 0

\* socket.onopen of transport t
TransportOpen(t) ==
    /\ readyState[t] = CONNECTING
    /\ readyState' = [readyState EXCEPT ![t] = OPEN]
    /\ reconnectAttempts' = ResetAttempts(reconnectAttempts)
    /\ LET e == emit(listeners, "connection", "connected") IN
       /\ effects' = e.fx
       /\ threw' = e.threw
    /\ sent' = <<>>
    /\ scheduledDelays' = <<>>
    /\ reachedSinceOpen' = 0
    /\ failedBeforeOpen' = reconnectAttempts
    /\ onlyFailures' = FALSE
    /\ UNCHANGED <<socket, closedOpen, config, listeners, timers, regOps, dropped, appVars>>

\* socket.onmessage of transport t, the peer having sent text
TransportMessage(t, text) ==
    /\ readyState[t] = OPEN
    /\ LET data == Parse(text) IN
       IF data.ok
       THEN LET e == emit(listeners, data.type, data.payload) IN
            effects' = IF e.threw THEN e.fx \o <<FxLogError>> ELSE e.fx
       ELSE effects' = <<FxLogError>>
    /\ dropped' = (dropped \/ ~Parse(text).ok)
    /\ sent' = <<>>
    /\ threw' = FALSE
    /\ onlyFailures' = FALSE
    /\ UNCHANGED <<socket, readyState, closedOpen, config, listeners, policy,
                   failedBeforeOpen, regOps, appVars>>

\* mutant of TransportError: onerror starts a reconnection of its own
TransportErrorRetries(t) ==
    /\ t \in Live
    /\ LET e == emit(listeners, "error", "err")
           r == attemptReconnect(reconnectAttempts, maxReconnectAttempts,
                                 reconnectInterval, listeners)
       IN /\ effects' = <<FxLogError>> \o e.fx \o r.fx
          /\ threw' = e.threw
          /\ reconnectAttempts' = r.attempts
          /\ timers' = timers (+) SetToBag({r.delays[i] : i \in 1..Len(r.delays)})
          /\ scheduledDelays' = scheduledDelays \o r.delays
          /\ reachedSinceOpen' = reachedSinceOpen + r.reached
    /\ sent' = <<>>
    /\ onlyFailures' = FALSE
    /\ UNCHANGED <<socket, readyState, closedOpen, config, listeners,
                   failedBeforeOpen, regOps, dropped, appVars>>

\* socket.onerror of transport t
TransportError(t) ==
    /\ t \in Live
    /\ LET e == emit(listeners, "error", "err") IN
       /\ effects' = <<FxLogError>> \o e.fx
       /\ threw' = e.threw
    /\ sent' = <<>>
    /\ onlyFailures' = FALSE
    /\ UNCHANGED <<socket, readyState, closedOpen, config, listeners, policy,
                   failedBeforeOpen, regOps, dropped, appVars>>

\* the peer starts the closing handshake of an open transport: readyState
\* becomes CLOSING and no callback of the client runs
TransportClosing(t) ==
    /\ readyState[t] = OPEN
    /\ readyState' = [readyState EXCEPT ![t] = CLOSING]
    /\ effects' = <<>>
    /\ sent' = <<>>
    /\ threw' = FALSE
    /\ onlyFailures' = FALSE
    /\ UNCHANGED <<socket, closedOpen, config, listeners, policy, failedBeforeOpen, regOps, dropped, appVars>>

\* mutant of TransportClose: attemptReconnect runs before the emit
TransportCloseRetriesFirst(t) ==
    /\ t \in Live
    /\ readyState' = [readyState EXCEPT ![t] = CLOSED]
    /\ closedOpen' = closedOpen \ {t}
    /\ onlyFailures' = (onlyFailures /\ readyState[t] = CONNECTING)
    /\ sent' = <<>>
    /\ LET r == attemptReconnect(reconnectAttempts, maxReconnectAttempts,
                                 reconnectInterval, listeners)
           e == emit(listeners, "connection", "disconnected")
       IN /\ effects' = IF r.threw THEN r.fx ELSE r.fx \o e.fx
          /\ threw' = (r.threw \/ e.threw)
          /\ reconnectAttempts' = r.attempts
          /\ timers' = timers (+) SetToBag({r.delays[i] : i \in 1..Len(r.delays)})
          /\ scheduledDelays' = scheduledDelays \o r.delays
          /\ reachedSinceOpen' = reachedSinceOpen + r.reached
    /\ UNCHANGED <<socket, config, listeners, failedBeforeOpen, regOps, dropped, appVars>>

\* socket.onclose of transport t: emit, then attemptReconnect unless a listener threw
TransportClose(t) ==
    /\ t \in Live
    /\ readyState' = [readyState EXCEPT ![t] = CLOSED]
    /\ closedOpen' = closedOpen \ {t}
    /\ onlyFailures' = (onlyFailures /\ readyState[t] = CONNECTING)
    /\ sent' = <<>>
    /\ LET e == emit(listeners, "connection", "disconnected") IN
       IF e.threw
       THEN /\ effects' = e.fx
            /\ threw' = TRUE
            /\ UNCHANGED policy
       ELSE LET r == attemptReconnect(reconnectAttempts, maxReconnectAttempts,
                                      reconnectInterval, listeners) IN
            /\ effects' = e.fx \o r.fx
            /\ threw' = r.threw
            /\ reconnectAttempts' = r.attempts
            /\ timers' = timers (+) SetToBag({r.delays[i] : i \in 1..Len(r.delays)})
            /\ scheduledDelays' = scheduledDelays \o r.delays
            /\ reachedSinceOpen' = reachedSinceOpen + r.reached
    /\ UNCHANGED <<socket, config, listeners, failedBeforeOpen, regOps, dropped, appVars>>

(* ---------------------------- caller's calls -------------------------- *)
\* WebSocket.close(): a transport not yet closing starts to close
Close(rs) == IF rs \in {CONNECTING, OPEN} THEN CLOSING ELSE rs

\* mutant of Disconnect: the reference to the closed transport is kept
DisconnectKeepsSocket ==
    /\ IF socket # NoSocket
       THEN /\ readyState' = [readyState EXCEPT ![socket] = Close(readyState[socket])]
            /\ closedOpen' = IF readyState[socket] = OPEN
                              THEN closedOpen \cup {socket} ELSE closedOpen
            /\ effects' = <<FxClose>>
       ELSE /\ UNCHANGED <<readyState, closedOpen>>
            /\ effects' = <<>>
    /\ socket' = socket
    /\ sent' = <<>>
    /\ threw' = FALSE
    /\ onlyFailures' = FALSE
    /\ UNCHANGED <<config, listeners, policy, failedBeforeOpen, regOps, dropped, appVars>>

\* disconnect(), less the application state around the call
DisconnectCall ==
    /\ IF socket # NoSocket
       THEN /\ readyState' = [readyState EXCEPT ![socket] = Close(readyState[socket])]
            /\ closedOpen' = IF readyState[socket] = OPEN
                              THEN closedOpen \cup {socket} ELSE closedOpen
            /\ socket' = NoSocket
            /\ effects' = <<FxClose>>
       ELSE /\ UNCHANGED <<readyState, closedOpen, socket>>
            /\ effects' = <<>>
    /\ sent' = <<>>
    /\ threw' = FALSE
    /\ onlyFailures' = FALSE
    /\ UNCHANGED <<config, listeners, policy, failedBeforeOpen, regOps, dropped>>

\* disconnect()
Disconnect == DisconnectCall /\ UNCHANGED appVars

\* mutant of CanSend: any transport not yet closed will do
CanSendUnlessClosed(sock, rs) == sock # NoSocket /\ rs[sock] # CLOSED

\* the test of send: an open transport is held
CanSend(sock, rs) == sock # NoSocket /\ rs[sock] = OPEN

\* send(type, payload)
Send(type, payload) ==
    /\ IF CanSend(socket, readyState)
       THEN /\ sent' = <<Stringify(type, payload)>>
            /\ effects' = <<FxFrame>>
       ELSE /\ sent' = <<>>
            /\ effects' = <<FxWarn(type, payload)>>
    /\ threw' = FALSE
    /\ onlyFailures' = FALSE
    /\ UNCHANGED <<socket, readyState, closedOpen, config, listeners, policy,
                   failedBeforeOpen, regOps, dropped, appVars>>

\* what on, off and emit leave alone
RegistryFrame ==
    /\ sent' = <<>>
    /\ onlyFailures' = FALSE
    /\ UNCHANGED <<socket, readyState, closedOpen, config, policy, failedBeforeOpen,
                   dropped, appVars>>

\* on(event, callback), less what the registry specification records of it
OnCall(event, cb) ==
    /\ listeners' = on(listeners, event, cb)
    /\ effects' = <<>>
    /\ threw' = FALSE
    /\ RegistryFrame

\* on(event, callback)
On(event, cb) == OnCall(event, cb) /\ UNCHANGED regOps

\* off(event, callback), less what the registry specification records of it
OffCall(event, cb) ==
    /\ listeners' = off(listeners, event, cb)
    /\ effects' = <<>>
    /\ threw' = FALSE
    /\ RegistryFrame

\* off(event, callback)
Off(event, cb) == OffCall(event, cb) /\ UNCHANGED regOps

\* emit(event, data), called as a method
Emit(event, data) ==
    /\ LET e == emit(listeners, event, data) IN
       /\ effects' = e.fx
       /\ threw' = e.threw
    /\ UNCHANGED <<listeners, regOps>>
    /\ RegistryFrame

(* ------------------- AppProvider: the reducer's inputs ---------------- *)
ActionTypes ==
    {"SET_USER", "SET_CONVERSATIONS", "SET_ACTIVE_CONVERSATION", "ADD_MESSAGE",
     "UPDATE_MESSAGE", "SET_MESSAGES", "SET_LOADING", "SET_ERROR",
     "SET_CONNECTION_STATUS", "SET_TYPING", "SET_UNREAD_COUNT", "SET_THEME",
     "ADD_NOTIFICATION", "REMOVE_NOTIFICATION", "SET_SYSTEM_HEALTH", "RESET_STATE"}
\* a type that is none of actionTypes
UnknownType == "UNKNOWN"

\* the messages a caller adds, updates or sets
Added == {Message(<<"m", 1>>, role, FALSE) : role \in Roles}
\* the counts a caller passes to setUnreadCount
Counts == (0 - 1)..MaxUnread

\* payloads a caller passes with an action of the type
PayloadsOf(type) ==
    CASE type \in {"SET_USER", "SET_ACTIVE_CONVERSATION", "SET_ERROR", "SET_SYSTEM_HEALTH"} ->
             {Null, "value"}
      [] type = "SET_CONVERSATIONS" -> {<<>>, <<"c1">>}
      [] type \in {"ADD_MESSAGE", "UPDATE_MESSAGE"} -> Added
      [] type = "SET_MESSAGES" -> {<<>>} \cup {<<message>> : message \in Added}
      [] type \in {"SET_LOADING", "SET_CONNECTION_STATUS", "SET_TYPING"} -> BOOLEAN
      [] type = "SET_UNREAD_COUNT" -> Counts
      [] type = "SET_THEME" -> {"light", "dark"}
      [] type = "ADD_NOTIFICATION" -> {Notice("info", TRUE)}
      [] type = "REMOVE_NOTIFICATION" -> 0..0
      [] OTHER -> {Null}

\* state = appReducer(state, action), for an action within the bounds
Reduce(type, payload) ==
    /\ type = "ADD_MESSAGE" =>
           Len(state.messages) < MaxReducedMessages /\ state.unreadCount < MaxUnread
    /\ type = "ADD_NOTIFICATION" => Len(state.notifications) < MaxReducedNotifications
    /\ state' = appReducer(state, Action(type, payload))
    /\ UNCHANGED <<wsVars, now, removals, sends, logins, loggedOut, chatVars, logsVars>>

(* ----------------------- AppProvider: the session --------------------- *)
\* a notification's auto-remove timer fires, the oldest first and later than the
\* millisecond that set it: removeNotification(notification.id)
RemovalFire ==
    /\ removals # <<>>
    /\ now > Head(removals).armed
    /\ LET p == dispatch([state |-> state, removals |-> Tail(removals)],
                         Action("REMOVE_NOTIFICATION", Head(removals).id)) IN
       /\ state' = p.state
       /\ removals' = p.removals
    /\ UNCHANGED <<wsVars, now, sends, logins, loggedOut, chatVars, logsVars>>

\* services.login(credentials), up to its await of apiService.login
LoginCall ==
    /\ logins < MaxLogins
    /\ logins' = logins + 1
    /\ LET p == dispatchAll(provider, <<Action("SET_LOADING", TRUE),
                                        Action("SET_ERROR", Null)>>) IN
       /\ state' = p.state
       /\ removals' = p.removals
    /\ UNCHANGED <<wsVars, now, sends, loggedOut, chatVars, logsVars>>

\* services.login(credentials), from the moment apiService.login settles
LoginSettles(ok) ==
    /\ logins > 0
    /\ logins' = logins - 1
    /\ Len(removals) < MaxRemovals
    /\ IF ok
       THEN /\ ConnectCall
            /\ LET p == dispatchAll(provider,
                            <<Action("SET_USER", "user"),
                              Action("ADD_NOTIFICATION", Notice("success", TRUE)),
                              Action("SET_LOADING", FALSE)>>) IN
               /\ state' = p.state
               /\ removals' = p.removals
            /\ loggedOut' = FALSE
       ELSE /\ LET p == dispatchAll(provider,
                            <<Action("SET_ERROR", "Login failed"),
                              Action("ADD_NOTIFICATION", Notice("error", TRUE)),
                              Action("SET_LOADING", FALSE)>>) IN
               /\ state' = p.state
               /\ removals' = p.removals
            /\ UNCHANGED <<wsVars, loggedOut>>
    /\ UNCHANGED <<now, sends, chatVars, logsVars>>

\* services.logout(), from the moment apiService.logout settles; the call
\* writes nothing before that.  ok: the POST to /api/v1/auth/logout resolved
Logout(ok) ==
    /\ IF ok
       THEN /\ Len(removals) < MaxRemovals
            /\ DisconnectCall
            /\ LET p == dispatchAll(provider,
                            <<Action("RESET_STATE", Null),
                              Action("ADD_NOTIFICATION", Notice("info", TRUE))>>) IN
               /\ state' = p.state
               /\ removals' = p.removals
       ELSE /\ LET p == dispatch(provider, Action("RESET_STATE", Null)) IN
               /\ state' = p.state
               /\ removals' = p.removals
            /\ UNCHANGED wsVars
    /\ loggedOut' = TRUE
    /\ UNCHANGED <<now, sends, logins, chatVars, logsVars>>

(* --------------------- AppProvider: notifications --------------------- *)
\* actions.addNotification(notification)
Notify(notification) ==
    /\ Len(state.notifications) < MaxNotifications
    /\ Len(removals) < MaxRemovals
    /\ LET p == dispatch(provider, Action("ADD_NOTIFICATION", notification)) IN
       /\ state' = p.state
       /\ removals' = p.removals
    /\ UNCHANGED <<wsVars, now, sends, logins, loggedOut, chatVars, logsVars>>

\* a millisecond passes: Date.now() returns the next value
Tick ==
    /\ now < MaxClock
    /\ now' = now + 1
    /\ UNCHANGED <<wsVars, state, removals, sends, logins, loggedOut, chatVars, logsVars>>

(* ---------------------- AppProvider: sendMessage --------------------- *)
\* the messages the server pushes over the WebSocket as `new_message`
Pushed == {Message(<<"pushed", k>>, "assistant", FALSE) : k \in 1..MaxPushed}

\* state.messages.filter(msg => !msg.isTemporary)
NotTemporary(msgs) ==
    LET Keep(msg) == ~msg.isTemporary IN SelectSeq(msgs, Keep)

\* handleNewMessage(message), the listener of `new_message`
NewMessage(message) ==
    /\ Len(state.messages) < MaxMessages
    /\ LET p == dispatch(provider, Action("ADD_MESSAGE", message)) IN
       /\ state' = p.state
       /\ removals' = p.removals
    /\ UNCHANGED <<wsVars, now, sends, logins, loggedOut, chatVars, logsVars>>

\* services.sendMessage(message), up to its await of apiService.sendMessage.
\* `state` in the function is the state of the render that made it: the
\* messages of the moment of the call, without the optimistic entry
SendCall ==
    /\ Len(sends) < MaxSends
    /\ sends' = Append(sends, [snapshot |-> state.messages, status |-> "pending"])
    /\ LET p == dispatchAll(provider,
                    <<Action("SET_TYPING", TRUE),
                      Action("SET_ERROR", Null),
                      Action("ADD_MESSAGE", Message(<<"temp", now>>, "user", TRUE))>>) IN
       /\ state' = p.state
       /\ removals' = p.removals
    /\ UNCHANGED <<wsVars, now, logins, loggedOut, chatVars, logsVars>>

\* services.sendMessage, call n, from the moment the API resolves
SendResolves(n) ==
    /\ n \in 1..Len(sends)
    /\ sends[n].status = "pending"
    /\ sends' = [sends EXCEPT ![n].status = "resolved"]
    /\ LET p == dispatchAll(provider,
                    <<Action("SET_MESSAGES", NotTemporary(sends[n].snapshot)),
                      Action("ADD_MESSAGE", Message(<<"user_message", n>>, "user", FALSE)),
                      Action("ADD_MESSAGE", Message(<<"ai_message", n>>, "assistant", FALSE)),
                      Action("SET_TYPING", FALSE)>>) IN
       /\ state' = p.state
       /\ removals' = p.removals
    /\ UNCHANGED <<wsVars, now, logins, loggedOut, chatVars, logsVars>>

\* services.sendMessage, call n, from the moment the API rejects
SendRejects(n) ==
    /\ n \in 1..Len(sends)
    /\ sends[n].status = "pending"
    /\ sends' = [sends EXCEPT ![n].status = "rejected"]
    /\ LET p == dispatchAll(provider,
                    <<Action("SET_ERROR", "Failed to send message"),
                      Action("ADD_NOTIFICATION", Notice("error", TRUE)),
                      Action("SET_MESSAGES", NotTemporary(sends[n].snapshot)),
                      Action("SET_TYPING", FALSE)>>) IN
       /\ state' = p.state
       /\ removals' = p.removals
    /\ UNCHANGED <<wsVars, now, logins, loggedOut, chatVars, logsVars>>

(* ------------------------------ ChatInterface ------------------------- *)
\* what the user may type; "" stands for input that trims to nothing
Inputs == {"", "m1", "m2"}
\* an entry of messages
Entry(content, role) == [content |-> content, role |-> role]
\* GET /api/v1/chat/conversations answers with no conversation or with one
ConversationLists == {<<>>, <<"c1">>}
\* the messages GET /api/v1/chat/conversations/c1 answers with
History == <<Entry("h1", "user"), Entry("h2", "assistant")>>

\* prev.slice(0, -1)
SliceOffLast(msgs) == IF msgs = <<>> THEN <<>> ELSE SubSeq(msgs, 1, Len(msgs) - 1)

\* the `loading` test of sendMessage
Busy(loading) == loading

\* loadConversations, from the moment GET /api/v1/chat/conversations settles
ConversationsArrive(ok, list) ==
    /\ chatLoad = "conversations"
    /\ IF ok /\ Len(list) > 0
       THEN /\ conversationId' = list[1]
            /\ chatLoad' = "messages"
       ELSE /\ chatLoad' = "done"
            /\ UNCHANGED conversationId
    /\ UNCHANGED <<wsVars, providerVars, chatMessages, chatLoading, chatError, chatSend,
                   logsVars>>

\* loadConversations, from the moment GET /api/v1/chat/conversations/{id} settles
MessagesArrive(ok) ==
    /\ chatLoad = "messages"
    /\ chatLoad' = "done"
    /\ chatMessages' = IF ok THEN History ELSE chatMessages
    /\ UNCHANGED <<wsVars, providerVars, chatLoading, chatError, conversationId, chatSend,
                   logsVars>>

\* sendMessage(e) with inputMessage = input, up to its await of axios.post
ChatSubmit(input) ==
    /\ Len(chatMessages) < MaxChat
    /\ IF input = "" \/ Busy(chatLoading)
       THEN UNCHANGED <<chatMessages, chatLoading, chatError, chatSend>>
       ELSE /\ chatMessages' = Append(chatMessages, Entry(input, "user"))
            /\ chatLoading' = TRUE
            /\ chatError' = ""
            /\ chatSend' = Append(chatSend, Entry(input, "user"))
    /\ UNCHANGED <<wsVars, providerVars, conversationId, chatLoad, logsVars>>

\* sendMessage, from the moment axios.post resolves
ChatResolves ==
    /\ chatSend # <<>>
    /\ chatSend' = Tail(chatSend)
    /\ chatMessages' = Append(chatMessages, Entry("response", "assistant"))
    /\ conversationId' = "c1"
    /\ chatLoading' = FALSE
    /\ UNCHANGED <<wsVars, providerVars, chatError, chatLoad, logsVars>>

\* sendMessage, from the moment axios.post rejects
ChatRejects ==
    /\ chatSend # <<>>
    /\ chatSend' = Tail(chatSend)
    /\ chatError' = "Failed to send message. Please try again."
    /\ chatMessages' = SliceOffLast(chatMessages)
    /\ chatLoading' = FALSE
    /\ UNCHANGED <<wsVars, providerVars, conversationId, chatLoad, logsVars>>

(* ------------------------------- LogsManager -------------------------- *)
\* the logs the server holds
Log(id, status) == [id |-> id, status |-> status]
ServerLogs == <<Log(1, "open"), Log(2, "resolved")>>

\* response.data of GET /api/v1/logs/logs with the parameters loadLogs builds
\* of filters f: status is sent where it is not empty
LogsFor(f) ==
    LET Matches(log) == f.status = "" \/ log.status = f.status
    IN SelectSeq(ServerLogs, Matches)

\* the user selects a status: setFilters, and the effect on [filters] calls
\* loadLogs up to its await of axios.get (loadSummary writes summary alone)
SelectStatus(status) ==
    /\ Len(requests) < MaxRequests
    /\ filters' = [filters EXCEPT !.status = status]
    /\ logsLoading' = TRUE
    /\ requests' = Append(requests, [filters |-> [filters EXCEPT !.status = status],
                                     status  |-> "pending"])
    /\ UNCHANGED <<wsVars, providerVars, chatVars, logs, filteredLogs>>

\* loadLogs, call n, from the moment axios.get settles
LogsArrive(n, ok) ==
    /\ n \in 1..Len(requests)
    /\ requests[n].status = "pending"
    /\ requests' = [requests EXCEPT ![n].status = IF ok THEN "resolved" ELSE "rejected"]
    /\ IF ok
       THEN /\ logs' = LogsFor(requests[n].filters)
            /\ filteredLogs' = LogsFor(requests[n].filters)
       ELSE UNCHANGED <<logs, filteredLogs>>
    /\ logsLoading' = FALSE
    /\ UNCHANGED <<wsVars, providerVars, chatVars, filters>>

(* ---------------------------- specifications -------------------------- *)
\* on(event, callback) for the registrations that can reach the policy
Register == \E ev \in PolicyTypes, cb \in PolicyCallbacks :
                Registrations(listeners) < MaxListeners /\ On(ev, cb)
Unregister == \E ev \in PolicyTypes, cb \in PolicyCallbacks : Off(ev, cb)
Timer == \E d \in BagToSet(timers) : TimerFire(d)
Opened == \E t \in Transports : TransportOpen(t)
Errored == \E t \in Transports : TransportError(t)
Closing == \E t \in Transports : TransportClosing(t)
Closed == \E t \in Transports : TransportClose(t)
Received == \E t \in Transports, text \in WireTexts : TransportMessage(t, text)
Sent == \E m \in Messages : Send(m[1], m[2])
\* on(event, callback) for the listeners of inbound frames
Subscribe == \E ev \in SubscribedTypes, cb \in Callbacks :
                 Registrations(listeners) < MaxSubscribed /\ On(ev, cb)

\* The connection and its reconnection policy, under every interleaving of the
\* caller's connect and disconnect, the transports' callbacks, the timers and
\* the registrations that can reach the policy.  send, onmessage and onerror
\* write none of the fields the policy reads and are left to SpecTraffic, as is
\* the closing handshake the peer starts.
Next ==
    \/ Connect
    \/ Disconnect
    \/ Timer
    \/ Opened
    \/ Closed
    \/ Register
    \/ Unregister

Spec == Init /\ [][Next]_vars

\* The connection with frames going out, transport errors and the closing
\* handshake, no listener registered.
Traffic ==
    \/ Connect
    \/ Disconnect
    \/ Timer
    \/ Opened
    \/ Errored
    \/ Closing
    \/ Closed
    \/ Sent

SpecTraffic == Init /\ [][Traffic]_vars

\* Frames and errors coming in on the transports, with listeners registered for
\* their types.
Inbound ==
    \/ Connect
    \/ Opened
    \/ Subscribe
    \/ Received
    \/ Errored

SpecInbound == Init /\ [][Inbound]_vars

\* the caller's first connect(token)
FirstConnect == Created = {} /\ Connect

\* One session left to the reconnection policy: the caller connects once and
\* never disconnects; listeners of `connection` come and go.  The browser runs
\* every timer that is due, and every transport it has created opens or closes.
Retry ==
    \/ FirstConnect
    \/ Timer
    \/ Opened
    \/ Closed
    \/ Register
    \/ Unregister

SpecRetry ==
    /\ Init
    /\ [][Retry]_vars
    /\ WF_vars(Timer)
    /\ WF_vars(Opened \/ Closed)

\* The listener registry alone: runs of at most MaxRegOps on/off calls, recorded
\* in regOps, with emit called between them.
RegOp(kind, event, cb) == [kind |-> kind, event |-> event, cb |-> cb]

RecordedOn == \E ev \in RegTypes, cb \in Callbacks :
                  /\ Len(regOps) < MaxRegOps
                  /\ OnCall(ev, cb)
                  /\ regOps' = Append(regOps, RegOp("on", ev, cb))
RecordedOff == \E ev \in RegTypes, cb \in Callbacks :
                   /\ Len(regOps) < MaxRegOps
                   /\ OffCall(ev, cb)
                   /\ regOps' = Append(regOps, RegOp("off", ev, cb))
Emitted == \E ev \in RegTypes, p \in Payloads : Emit(ev, p)

Registry ==
    \/ RecordedOn
    \/ RecordedOff
    \/ Emitted

SpecRegistry == Init /\ [][Registry]_vars

\* The session of one user: services.login and services.logout around the
\* connection, the transports' callbacks and the reconnection timers, no
\* listener registered.  The auto-remove timers of the notifications stay
\* pending, at most MaxRemovals of them set before a further one.
LoginCalled == LoginCall
LoginSucceeds == LoginSettles(TRUE)
LoginFails == LoginSettles(FALSE)
LogoutSucceeds == Logout(TRUE)
LogoutFails == Logout(FALSE)

Session ==
    \/ LoginCalled
    \/ LoginSucceeds
    \/ LoginFails
    \/ LogoutSucceeds
    \/ LogoutFails
    \/ Timer
    \/ Opened
    \/ Closed

SpecSession == Init /\ [][Session]_vars

\* The conversation of the provider: services.sendMessage calls, each settled
\* by the API in either way, and messages pushed over the WebSocket.
Pushes == \E message \in Pushed : NewMessage(message)
SendCalled == SendCall
SendResolved == \E n \in 1..MaxSends : SendResolves(n)
SendRejected == \E n \in 1..MaxSends : SendRejects(n)

Conversation ==
    \/ Pushes
    \/ SendCalled
    \/ SendResolved
    \/ SendRejected

SpecConversation == Init /\ [][Conversation]_vars

\* ChatInterface from its mount: the two requests of loadConversations and the
\* user's sends, each settled in either way.
ConversationsLoaded == \E ok \in BOOLEAN, list \in ConversationLists :
                           ConversationsArrive(ok, list)
MessagesLoaded == \E ok \in BOOLEAN : MessagesArrive(ok)
Submitted == \E input \in Inputs : ChatSubmit(input)

Chat ==
    \/ ConversationsLoaded
    \/ MessagesLoaded
    \/ Submitted
    \/ ChatResolves
    \/ ChatRejects

SpecChat == Init /\ [][Chat]_vars

\* appReducer alone, applied from the provider's initial state to every action
\* type, a type it does not know included, the service as its constructor
\* leaves it.
Constructed == Init /\ maxReconnectAttempts = MaxBudget
Reduced == \E type \in ActionTypes \cup {UnknownType} :
               \E payload \in PayloadsOf(type) : Reduce(type, payload)

SpecReducer == Constructed /\ [][Reduced]_vars

\* The notifications of the provider: addNotification calls, the clock and the
\* auto-remove timers.
Notified == \E type \in NotificationTypes, autoRemove \in BOOLEAN :
                Notify(Notice(type, autoRemove))

Notifications ==
    \/ Notified
    \/ Tick
    \/ RemovalFire

SpecNotifications == Init /\ [][Notifications]_vars

\* LogsManager from its mount, the first loadLogs under way: the user's filter
\* selections and the answers to the requests, in any order.
Selected == \E status \in Statuses : SelectStatus(status)
LogsArrived == \E n \in 1..MaxRequests, ok \in BOOLEAN : LogsArrive(n, ok)

Logs ==
    \/ Selected
    \/ LogsArrived

SpecLogs == Init /\ [][Logs]_vars

(* ------------------------------- claims ------------------------------- *)
\* the callbacks the effects fx invoke for event ev, in order
CallsOf(fx, ev) ==
    LET IsCall(x) == x.kind = "call" /\ x.event = ev
        calls == SelectSeq(fx, IsCall)
    IN [i \in 1..Len(calls) |-> calls[i].cb]
\* how many effects of fx are of this kind
CountKind(fx, kind) == Cardinality({i \in 1..Len(fx) : fx[i].kind = kind})
\* how many times fx emits event ev
CountEmits(fx, ev) ==
    Cardinality({i \in 1..Len(fx) : fx[i].kind = "emit" /\ fx[i].event = ev})
\* transports whose close callback has run
ClosedCount == Cardinality(Created \ Live)
Min(a, b) == IF a < b THEN a ELSE b

C3_ThreeTransports ==
    (/\ maxReconnectAttempts = 3
     /\ reconnectInterval = 1000
     /\ onlyFailures
     /\ ClosedCount = 3
     /\ Live = {})
    => /\ scheduledDelays = <<1000, 2000, 3000>>
       /\ reachedSinceOpen = 1
       /\ timers = EmptyBag

\* C3, amended: with a budget of 3 and an interval of 1000, the first three
\* closes set the delays 1000, 2000, 3000 in that order and emit nothing; the
\* third timer still fires, and the event is emitted once when that fourth
\* transport closes, with no timer pending and no transport live after it.
C3_FourTransports ==
    (/\ maxReconnectAttempts = 3
     /\ reconnectInterval = 1000
     /\ onlyFailures)
    => /\ scheduledDelays = SubSeq(<<1000, 2000, 3000>>, 1, Min(ClosedCount, 3))
       /\ reachedSinceOpen = (IF ClosedCount = 4 THEN 1 ELSE 0)
       /\ Cardinality(Created) <= 4
       /\ reachedSinceOpen = 1 => (timers = EmptyBag /\ Live = {})

\* the fourth transport has closed and the event has been emitted
C3_Witness ==
    /\ maxReconnectAttempts = 3
    /\ reconnectInterval = 1000
    /\ onlyFailures
    /\ ClosedCount = 4
    /\ scheduledDelays = <<1000, 2000, 3000>>
    /\ reachedSinceOpen = 1

\* C4: disconnect() leaves no reconnection timer pending.
C4_DisconnectCancelsTimers == [][Disconnect => timers' = EmptyBag]_vars

\* C5: the close callback of a transport that disconnect() closed while it was
\* open does not run the reconnection policy: the retry counter and the timers
\* stay as they are.
C5_DisconnectIsTerminal ==
    [][\A t \in Transports :
           (t \in closedOpen /\ TransportClose(t)) =>
               UNCHANGED <<reconnectAttempts, timers>>]_vars

\* C6: connect() called while the transport held is still connecting creates no
\* transport.
C6_ConnectWhileConnecting ==
    [][(Connect /\ socket # NoSocket /\ readyState[socket] = CONNECTING) =>
           UNCHANGED <<socket, readyState>>]_vars

C8_ListenersIsolated ==
    /\ ~threw
    /\ \A ev \in RegTypes :
           CountEmits(effects, ev) > 0 => CallsOf(effects, ev) = Get(listeners, ev)

\* the callbacks the recorded on calls registered for ev, in the order of the calls
OnSeq(ops, ev) ==
    LET IsOn(o) == o.kind = "on" /\ o.event = ev
        ons == SelectSeq(ops, IsOn)
    IN [i \in 1..Len(ons) |-> ons[i].cb]
\* how many registrations of cb for ev the recorded calls leave: an on adds one,
\* an off takes one away when there is one
RECURSIVE RegisteredCount(_, _, _)
RegisteredCount(ops, ev, cb) ==
    IF ops = <<>> THEN 0
    ELSE LET before == RegisteredCount(SubSeq(ops, 1, Len(ops) - 1), ev, cb)
             last == ops[Len(ops)]
         IN IF last.event # ev \/ last.cb # cb THEN before
            ELSE IF last.kind = "on" THEN before + 1
            ELSE IF before > 0 THEN before - 1 ELSE 0
\* a is b with some elements left out
RECURSIVE IsSubseq(_, _)
IsSubseq(a, b) ==
    IF a = <<>> THEN TRUE
    ELSE IF b = <<>> THEN FALSE
    ELSE IF Head(a) = Head(b) /\ IsSubseq(Tail(a), Tail(b)) THEN TRUE
    ELSE IsSubseq(a, Tail(b))
CountIn(cbs, cb) == Cardinality({i \in 1..Len(cbs) : cbs[i] = cb})

C10_SendOneFrameOrWarn ==
    [][\A m \in Messages :
           Send(m[1], m[2]) =>
               /\ UNCHANGED <<socket, readyState, reconnectAttempts, listeners, timers>>
               /\ ~threw'
               /\ IF socket # NoSocket /\ readyState[socket] = OPEN
                  THEN /\ Len(sent') = 1
                       /\ Parse(sent'[1]) =
                              [ok |-> TRUE, type |-> m[1], payload |-> m[2]]
                       /\ CountKind(effects', "socket.send") = 1
                       /\ CountKind(effects', "warn") = 0
                  ELSE /\ sent' = <<>>
                       /\ CountKind(effects', "socket.send") = 0
                       /\ CountKind(effects', "warn") = 1]_vars

\* a frame has been written to an open transport
C10_Witness ==
    /\ socket # NoSocket
    /\ readyState[socket] = OPEN
    /\ Len(sent) = 1
    /\ Parse(sent[1]).ok

\* C11: a frame that cannot be parsed is dropped: onmessage throws nothing,
\* emits nothing and invokes no listener, and leaves the retry counter, the
\* transport reference, the transports, the registry and the timers as they
\* are; and a well-formed frame that comes after a dropped one is still emitted
\* under its type, to the listeners of that type from the first on (all of them
\* unless one throws, C8).
C11_MalformedFrameDropped ==
    [][\A t \in Transports :
           /\ TransportMessage(t, Malformed) =>
                  /\ ~threw'
                  /\ dropped'
                  /\ CountKind(effects', "emit") = 0
                  /\ CountKind(effects', "call") = 0
                  /\ UNCHANGED <<reconnectAttempts, socket, readyState, listeners, timers>>
           /\ \A m \in Messages :
                  (dropped /\ TransportMessage(t, Stringify(m[1], m[2]))) =>
                      LET cur == Get(listeners, m[1])
                          calls == CallsOf(effects', m[1])
                      IN /\ ~threw'
                         /\ effects'[1] = FxEmit(m[1], m[2])
                         /\ CountKind(effects', "emit") = 1
                         /\ calls = SubSeq(cur, 1, Len(calls))
                         /\ Len(calls) < Len(cur) =>
                                (Len(calls) > 0 /\ Throws(calls[Len(calls)]))]_vars

\* after a frame was dropped, a well-formed frame has reached two listeners
C11_Witness ==
    /\ dropped
    /\ effects # <<>>
    /\ effects[1] = FxEmit("new_message", "p1")
    /\ CallsOf(effects, "new_message") = <<"A", "B">>

\* C12: in every reachable state, under every interleaving of connect,
\* disconnect, opens, closes, timers and registrations, the retry counter is at
\* least 0 and at most maxReconnectAttempts.
C12_CounterWithinBudget ==
    /\ 0 <= reconnectAttempts
    /\ reconnectAttempts <= maxReconnectAttempts

\* the counter is at the budget and closes have met it there more than once
C12_Witness ==
    /\ reconnectAttempts = maxReconnectAttempts
    /\ reachedSinceOpen >= 2

\* C13: once the budget is used up and maxReconnectAttemptsReached has been
\* emitted, connect() called by the caller sets the retry counter to 0.
C13_ConnectStartsFreshSession ==
    [][(Connect /\ reachedSinceOpen > 0 /\ reconnectAttempts = maxReconnectAttempts) =>
           reconnectAttempts' = 0]_vars

\* the latest callback was the close callback of a transport
JustClosed == effects # <<>> /\ effects[1] = FxEmit("connection", "disconnected")
\* the transports the model has left are enough for the retries the budget has left
RoomToRetry ==
    Cardinality(Created) + (maxReconnectAttempts - reconnectAttempts) <= MaxTransports
\* a transport of the client is open
Connected == \E t \in Transports : readyState[t] = OPEN
\* maxReconnectAttemptsReached has been emitted since the last open
Exhausted == reachedSinceOpen > 0

\* C14: with no disconnect(), timers firing and transports opening or closing,
\* every close of a transport is followed by the client being connected or by
\* maxReconnectAttemptsReached having been emitted.
C14_ConnectedOrExhausted == (JustClosed /\ RoomToRetry) ~> (Connected \/ Exhausted)

\* C15: once disconnect() has discarded an open transport, the close event of
\* that transport emits nothing, leaves the retry counter as it is and sets no
\* timer.
C15_DiscardedTransportDetached ==
    [][\A t \in Transports :
           (t \in closedOpen /\ TransportClose(t)) =>
               /\ CountKind(effects', "emit") = 0
               /\ CountKind(effects', "setTimeout") = 0
               /\ reconnectAttempts' = reconnectAttempts
               /\ timers' = timers]_vars

\* C16: connect() called while the transport held is open creates no transport
\* and throws nothing, and leaves the transport reference, the transports, the
\* retry counter, the registry and the timers as they are.
C16_ConnectWhileOpen ==
    [][(Connect /\ socket # NoSocket /\ readyState[socket] = OPEN) =>
           /\ effects' = <<>>
           /\ ~threw'
           /\ UNCHANGED <<socket, readyState, reconnectAttempts, listeners, timers>>]_vars

\* one transport, open and held, and the latest call did nothing
C16_Witness ==
    /\ socket # NoSocket
    /\ readyState[socket] = OPEN
    /\ Cardinality(Created) = 1
    /\ effects = <<>>
    /\ ~threw

C18_ErrorOnlyEmits ==
    [][\A t \in Transports :
           TransportError(t) =>
               LET cur == Get(listeners, "error")
                   calls == CallsOf(effects', "error")
               IN /\ CountKind(effects', "emit") = 1
                  /\ \E i \in 1..Len(effects') : effects'[i] = FxEmit("error", "err")
                  /\ \A i \in 1..Len(effects') :
                         effects'[i].kind = "call" =>
                             (effects'[i].event = "error" /\ effects'[i].data = "err")
                  /\ calls = SubSeq(cur, 1, Len(calls))
                  /\ Len(calls) < Len(cur) =>
                         (Len(calls) > 0 /\ Throws(calls[Len(calls)]))
                  /\ CountKind(effects', "setTimeout") = 0
                  /\ CountKind(effects', "new WebSocket") = 0
                  /\ UNCHANGED <<socket, readyState, reconnectAttempts, listeners,
                                 timers>>]_vars

\* an error of a transport has reached two listeners of `error`
C18_Witness ==
    /\ CountEmits(effects, "error") = 1
    /\ CallsOf(effects, "error") = <<"A", "B">>
    /\ timers = EmptyBag
    /\ reconnectAttempts = 0

\* C19: disconnect() throws nothing and leaves no transport held; called with
\* no transport held (never connected, or disconnected before) it does nothing
\* and leaves the transports, the retry counter, the registry and the timers as
\* they are, so that a second disconnect() changes nothing after the first.
C19_DisconnectIdempotent ==
    [][Disconnect =>
           /\ ~threw'
           /\ socket' = NoSocket
           /\ socket = NoSocket =>
                  /\ effects' = <<>>
                  /\ UNCHANGED <<readyState, reconnectAttempts, listeners, timers>>]_vars

\* a transport is closing, none is held, and the latest call did nothing
C19_Witness ==
    /\ socket = NoSocket
    /\ \E t \in Transports : readyState[t] = CLOSING
    /\ effects = <<>>
    /\ ~threw

\* C20: off(event, callback) with the callback not registered for the event,
\* or with no listener of the event at all, throws nothing and leaves the whole
\* registry as it is.
C20_OffUnregisteredIsNoOp ==
    [][\A ev \in RegTypes, cb \in Callbacks :
           (OffCall(ev, cb) /\ CountIn(Get(listeners, ev), cb) = 0) =>
               (listeners' = listeners /\ ~threw')]_vars

\* off for a callback other than the one registered, then off for an event with
\* no listeners: the one registration is still there, and nothing else
C20_Witness ==
    /\ regOps = <<RegOp("on", "new_message", "A"), RegOp("off", "new_message", "B"),
                  RegOp("off", "connection", "A")>>
    /\ DOMAIN listeners = {"new_message"}
    /\ listeners["new_message"] = <<"A">>

\* the indexes of the effects of fx that belong to the reconnection policy
PolicyEffects(fx) ==
    {i \in 1..Len(fx) :
         \/ fx[i].kind = "setTimeout"
         \/ fx[i].event = "maxReconnectAttemptsReached"}
\* the indexes of the effects of fx that belong to the emit of `connection`
ConnectionEffects(fx) == {i \in 1..Len(fx) : fx[i].event = "connection"}

\* C21: the open callback of a transport emits `connection` once, with status
\* connected; the close callback emits `connection` once, with status
\* disconnected, and that emit and the listener calls it makes come before
\* everything the reconnection policy does (a timer set, or
\* maxReconnectAttemptsReached emitted).
C21_ConnectionEvents ==
    [][\A t \in Transports :
           /\ TransportOpen(t) =>
                  /\ CountEmits(effects', "connection") = 1
                  /\ effects'[1] = FxEmit("connection", "connected")
                  /\ CountKind(effects', "emit") = 1
           /\ TransportClose(t) =>
                  /\ CountEmits(effects', "connection") = 1
                  /\ effects'[1] = FxEmit("connection", "disconnected")
                  /\ \A i \in ConnectionEffects(effects'), j \in PolicyEffects(effects') :
                         i < j]_vars

\* a close has emitted disconnected to a listener and then set a timer
C21_Witness ==
    /\ Len(effects) = 3
    /\ effects[1] = FxEmit("connection", "disconnected")
    /\ effects[2] = FxCall("A", "connection", "disconnected")
    /\ effects[3].kind = "setTimeout"

\* whether a callback registered for ev throws
SomeThrows(cbs) == \E i \in 1..Len(cbs) : Throws(cbs[i])

C23_DispatchByType ==
    [][\A t \in Transports, m \in Messages :
           TransportMessage(t, Stringify(m[1], m[2])) =>
               LET cur == Get(listeners, m[1])
                   calls == CallsOf(effects', m[1])
               IN /\ \A i \in 1..Len(effects') :
                         effects'[i].kind \in {"emit", "call"} =>
                             (effects'[i].event = m[1] /\ effects'[i].data = m[2])
                  /\ CountKind(effects', "call") = Len(calls)
                  /\ Len(calls) <= Len(cur)
                  /\ calls = SubSeq(cur, 1, Len(calls))
                  /\ Len(calls) < Len(cur) =>
                         (Len(calls) > 0 /\ Throws(calls[Len(calls)]))]_vars

\* a frame has reached the listener of its type and not the listener of another
C23_Witness ==
    /\ Get(listeners, "new_message") = <<"A">>
    /\ Get(listeners, "typing") = <<"B">>
    /\ effects = <<FxEmit("typing", "p2"), FxCall("B", "typing", "p2")>>

\* C24: at most one reconnection timer is pending at any time.
C24_OneTimerPending == BagCardinality(timers) <= 1

\* C25: when services.logout has completed, whether or not the logout API call
\* succeeded, wsService holds no transport (until a later login connects).
C25_LogoutReleasesTransport == loggedOut => socket = NoSocket

\* C26: no step of the conversation loses a message: every message of
\* state.messages that is not an optimistic entry (isTemporary) is still in
\* state.messages after the step, a send completing included.
C26_NoMessageLost ==
    [][\A i \in 1..Len(state.messages) :
          ~state.messages[i].isTemporary =>
              \E j \in 1..Len(state'.messages) : state'.messages[j] = state.messages[i]]_vars

\* msgs without the last entry equal to entry, msgs itself where there is none
WithoutLast(msgs, entry) ==
    IF \E i \in 1..Len(msgs) : msgs[i] = entry
    THEN LET i == CHOOSE k \in 1..Len(msgs) :
                      msgs[k] = entry /\ \A j \in (k + 1)..Len(msgs) : msgs[j] # entry
         IN SubSeq(msgs, 1, i - 1) \o SubSeq(msgs, i + 1, Len(msgs))
    ELSE msgs
\* the step is a send of ChatInterface failing
ChatSendFails == chatSend # <<>> /\ chatSend' = Tail(chatSend) /\ chatLoading' = FALSE
                     /\ chatError' # ""

\* C27: a failed send of ChatInterface leaves the messages as they would be had
\* the send never been made: the list of before the failure less the send's
\* own optimistic entry (the list itself where loadConversations has replaced
\* it meanwhile), and at most one send is in flight.
C27_RollbackOwnEntry ==
    [][/\ Len(chatSend') <= 1
       /\ ChatSendFails => chatMessages' = WithoutLast(chatMessages, chatSend[1])]_vars

\* the step is appReducer applied to the action
ReducedBy(type, payload) == state' = appReducer(state, Action(type, payload))
\* the action types the statement of unreadCount names
CountingTypes == {"ADD_MESSAGE", "SET_ACTIVE_CONVERSATION", "RESET_STATE", "SET_UNREAD_COUNT"}
\* what the statement says of the named types
NamedRules ==
    /\ \A message \in PayloadsOf("ADD_MESSAGE") :
           ReducedBy("ADD_MESSAGE", message) =>
               /\ state'.messages = Append(state.messages, message)
               /\ state'.unreadCount = state.unreadCount +
                      (IF message.role = "assistant" THEN 1 ELSE 0)
    /\ \A c \in PayloadsOf("SET_ACTIVE_CONVERSATION") :
           ReducedBy("SET_ACTIVE_CONVERSATION", c) => state'.unreadCount = 0
    /\ ReducedBy("RESET_STATE", Null) => state'.unreadCount = 0
    /\ \A n \in PayloadsOf("SET_UNREAD_COUNT") :
           ReducedBy("SET_UNREAD_COUNT", n) => state'.unreadCount = n
    /\ \A message \in PayloadsOf("UPDATE_MESSAGE") :
           ReducedBy("UPDATE_MESSAGE", message) =>
               /\ Len(state'.messages) = Len(state.messages)
               /\ \A i \in 1..Len(state.messages) : state'.messages[i].id = state.messages[i].id
\* the action leaves unreadCount and the length of messages as they are
FrameOf(type) ==
    \A payload \in PayloadsOf(type) :
        ReducedBy(type, payload) =>
            /\ state'.unreadCount = state.unreadCount
            /\ Len(state'.messages) = Len(state.messages)

\* C28 as stated: unreadCount is never negative, the named actions change it as
\* said, and every other action, an unknown type included, leaves unreadCount
\* and the length of messages unchanged.
C28_UnreadAndMessagesFrame ==
    [][/\ state'.unreadCount >= 0
       /\ NamedRules
       /\ \A type \in (ActionTypes \cup {UnknownType}) \ CountingTypes : FrameOf(type)]_vars

\* C28 amended: the named actions change unreadCount as said; SET_MESSAGES
\* replaces messages by its payload and RESET_STATE empties them, both leaving
\* or zeroing unreadCount as said; every other action, an unknown type
\* included, leaves unreadCount and the length of messages unchanged; and
\* unreadCount turns negative only by a SET_UNREAD_COUNT with a negative payload.
C28_UnreadAndMessagesRules ==
    [][/\ NamedRules
       /\ \A msgs \in PayloadsOf("SET_MESSAGES") :
              ReducedBy("SET_MESSAGES", msgs) =>
                  state'.messages = msgs /\ state'.unreadCount = state.unreadCount
       /\ ReducedBy("RESET_STATE", Null) => state'.messages = <<>>
       /\ \A type \in (ActionTypes \cup {UnknownType}) \ (CountingTypes \cup {"SET_MESSAGES"}) :
              FrameOf(type)
       /\ (state.unreadCount >= 0 /\ state'.unreadCount < 0) =>
              \E n \in PayloadsOf("SET_UNREAD_COUNT") :
                  n < 0 /\ ReducedBy("SET_UNREAD_COUNT", n)]_vars

\* messages have been added and counted, and messages replaced since
C28_Witness ==
    /\ Len(state.messages) = 1
    /\ state.unreadCount = MaxUnread
    /\ state.activeConversation # Null

\* C29: the removal of a notification removes that notification alone: no step
\* takes more than one notification out of state.notifications, also when two
\* were added within the same millisecond.
C29_RemovesOnlyItsOwn ==
    [][Len(state'.notifications) >= Len(state.notifications) - 1]_vars

\* no loadLogs request is outstanding
Settled == \A n \in 1..Len(requests) : requests[n].status # "pending"

\* C30: once every loadLogs request has completed, the one for the filters
\* selected last with a response, the logs LogsManager displays are that
\* response: the response to an earlier selection has not overwritten it.
C30_LatestFiltersShown ==
    (Settled /\ requests[Len(requests)].status = "resolved") => logs = LogsFor(filters)

====
